---- MODULE Spec2Model ----
(***************************************************************************)
(* A model of delpha_proxy's ProxyServer (src/delpha_proxy/server.py): the *)
(* operator's configuration and command loop, the accept loop, and one     *)
(* handler thread per accepted connection (authentication, HTTP forwarding *)
(* and the CONNECT tunnel).                                                *)
(*                                                                         *)
(* Byte strings (bytes) are sequences of integers in 0..255; text strings  *)
(* (str) are sequences of Unicode code points.  The two are converted by   *)
(* Decode/Encode as bytes.decode(errors="ignore") and str.encode() do.     *)
(***************************************************************************)
EXTENDS Integers, Sequences, FiniteSets, TLC

(***************************************************************************)
(* Characters.  Printable holds the ASCII characters 32..126 in order, so  *)
(* that the code point of a character is 31 plus its position; the three   *)
(* characters a string literal cannot hold are written by name.            *)
(***************************************************************************)
Printable ==
  << " ", "!", "dquote", "#", "$", "%", "&", "'", "(", ")", "*", "+", ",", "-",
     ".", "/", "0", "1", "2", "3", "4", "5", "6", "7", "8", "9", ":", ";",
     "<", "=", ">", "?", "@", "A", "B", "C", "D", "E", "F", "G", "H", "I",
     "J", "K", "L", "M", "N", "O", "P", "Q", "R", "S", "T", "U", "V", "W",
     "X", "Y", "Z", "[", "backslash", "]", "^", "_", "backtick", "a", "b", "c", "d", "e",
     "f", "g", "h", "i", "j", "k", "l", "m", "n", "o", "p", "q", "r", "s",
     "t", "u", "v", "w", "x", "y", "z", "{", "|", "}", "~" >>

Ord(ch) ==
  IF ch = "\r" THEN 13
  ELSE IF ch = "\n" THEN 10
  ELSE 31 + (CHOOSE i \in 1..Len(Printable) : Printable[i] = ch)

\* The text string written as the tuple of its characters.
Str(t) == [i \in 1..Len(t) |-> Ord(t[i])]

Min(a, b) == IF a < b THEN a ELSE b

(***************************************************************************)
(* Python str and bytes operations, as the handlers use them.            *)
(***************************************************************************)

\* s[:n] for n >= 0
Take(s, n) == SubSeq(s, 1, Min(n, Len(s)))

\* s[n:] for n >= 0
Drop(s, n) == SubSeq(s, n + 1, Len(s))

\* s[:e] for any integer e: a negative e counts from the end of s
SliceTo(s, e) ==
  IF e >= 0 THEN Take(s, e)
  ELSE IF Len(s) + e > 0 THEN Take(s, Len(s) + e) ELSE << >>

\* s[-n:] for n > 0
Last(s, n) == IF Len(s) > n THEN Drop(s, Len(s) - n) ELSE s

\* s.startswith(p)
StartsWith(s, p) == Len(s) >= Len(p) /\ SubSeq(s, 1, Len(p)) = p

\* s.find(p): the 0-based index of the first occurrence of p in s, or -1
Find(s, p) ==
  LET hits == {i \in 1..(Len(s) - Len(p) + 1) : SubSeq(s, i, i + Len(p) - 1) = p}
  IN  IF hits = {} THEN -1
      ELSE (CHOOSE i \in hits : \A j \in hits : i <= j) - 1

\* p in s
Contains(s, p) == Find(s, p) # -1

\* s.split(sep): the list of the parts of s between the occurrences of sep
RECURSIVE Split(_, _)
Split(s, sep) ==
  LET k == Find(s, sep)
  IN  IF k = -1 THEN << s >>
      ELSE << Take(s, k) >> \o Split(Drop(s, k + Len(sep)), sep)

\* s.lower(), on ASCII
Lower(s) == [i \in 1..Len(s) |-> IF s[i] >= 65 /\ s[i] <= 90 THEN s[i] + 32 ELSE s[i]]

\* s.strip() of the ASCII whitespace characters
IsSpace(ch) == ch \in {9, 10, 11, 12, 13, 32}

RECURSIVE LStrip(_)
LStrip(s) == IF s # << >> /\ IsSpace(s[1]) THEN LStrip(Tail(s)) ELSE s

RECURSIVE RStrip(_)
RStrip(s) ==
  IF s # << >> /\ IsSpace(s[Len(s)]) THEN RStrip(Take(s, Len(s) - 1)) ELSE s

Strip(s) == LStrip(RStrip(s))

\* int(s) accepts an optional sign and decimal digits, surrounded by
\* whitespace, and raises ValueError on anything else.  (Python also accepts
\* underscores between digits; no input of the model carries them.)
IsDigits(s) == s # << >> /\ \A i \in 1..Len(s) : s[i] >= 48 /\ s[i] <= 57

HasSign(s) == s # << >> /\ s[1] \in {43, 45}

IsIntLiteral(s) ==
  LET t == Strip(s) IN IsDigits(IF HasSign(t) THEN Tail(t) ELSE t)

RECURSIVE DigitsValue(_)
DigitsValue(s) ==
  IF s = << >> THEN 0 ELSE 10 * DigitsValue(Take(s, Len(s) - 1)) + (s[Len(s)] - 48)

ParseInt(s) ==
  LET t == Strip(s)
  IN  IF HasSign(t)
      THEN (IF t[1] = 45 THEN 0 - DigitsValue(Tail(t)) ELSE DigitsValue(Tail(t)))
      ELSE DigitsValue(t)

(***************************************************************************)
(* UTF-8.  Decode is bytes.decode(errors="ignore"): every byte that does   *)
(* not belong to a well-formed sequence is dropped.  One- and two-byte     *)
(* sequences are modelled; the lead bytes of three- and four-byte          *)
(* sequences (224..244) occur in no input of the model.                    *)
(***************************************************************************)
IsContinuation(b) == b >= 128 /\ b <= 191

IsLead2(b) == b >= 194 /\ b <= 223

\* The length of the longest prefix of s that is ASCII: both conversions
\* copy it unchanged.
AsciiRun(s) ==
  CHOOSE n \in 0..Len(s) :
    (\A i \in 1..n : s[i] < 128) /\ (n = Len(s) \/ s[n + 1] >= 128)

RECURSIVE Decode(_)
Decode(bs) ==
  LET n == AsciiRun(bs)
      rest == Drop(bs, n)
  IN  IF rest = << >> THEN bs
      ELSE IF IsLead2(rest[1]) /\ Len(rest) >= 2 /\ IsContinuation(rest[2])
           THEN Take(bs, n) \o << (rest[1] - 192) * 64 + (rest[2] - 128) >>
                  \o Decode(Drop(rest, 2))
      ELSE Take(bs, n) \o Decode(Tail(rest))

\* str.encode()
RECURSIVE Encode(_)
Encode(st) ==
  LET n == AsciiRun(st)
      rest == Drop(st, n)
  IN  IF rest = << >> THEN st
      ELSE Take(st, n) \o << 192 + (rest[1] \div 64), 128 + (rest[1] % 64) >>
             \o Encode(Tail(rest))

\* bytes.decode() without an error handler raises UnicodeDecodeError on the
\* inputs from which the lenient decoder drops a byte.
IsValidUtf8(bs) == Encode(Decode(bs)) = bs

(***************************************************************************)
(* Base64, as base64.b64decode(s) decodes (binascii.a2b_base64, not        *)
(* strict): characters outside the alphabet are skipped, a pad sequence    *)
(* that completes a quad ends the input, and an incomplete last quad is an *)
(* error.                                                                  *)
(***************************************************************************)
B64Alphabet ==
  Str(<< "A", "B", "C", "D", "E", "F", "G", "H", "I", "J", "K", "L", "M", "N",
         "O", "P", "Q", "R", "S", "T", "U", "V", "W", "X", "Y", "Z", "a", "b",
         "c", "d", "e", "f", "g", "h", "i", "j", "k", "l", "m", "n", "o", "p",
         "q", "r", "s", "t", "u", "v", "w", "x", "y", "z", "0", "1", "2", "3",
         "4", "5", "6", "7", "8", "9", "+", "/" >>)

B64Pad == Ord("=")

IsB64Char(ch) == \E i \in 1..Len(B64Alphabet) : B64Alphabet[i] = ch

B64Index(ch) == (CHOOSE i \in 1..Len(B64Alphabet) : B64Alphabet[i] = ch) - 1

\* The sextets of the input, in order, with the flag "ok" false when the
\* input ends inside a quad.  quad is the position in the current quad and
\* pads the number of pad characters seen since the last sextet.
RECURSIVE B64Scan(_, _, _, _)
B64Scan(s, quad, pads, acc) ==
  IF s = << >> THEN [ok |-> quad = 0, sextets |-> acc]
  ELSE IF s[1] = B64Pad
       THEN IF quad >= 2 /\ quad + pads + 1 >= 4
            THEN [ok |-> TRUE, sextets |-> acc]
            ELSE B64Scan(Tail(s), quad, IF quad >= 2 THEN pads + 1 ELSE pads, acc)
  ELSE IF ~IsB64Char(s[1]) THEN B64Scan(Tail(s), quad, pads, acc)
  ELSE B64Scan(Tail(s), (quad + 1) % 4, 0, Append(acc, B64Index(s[1])))

\* The bytes of a sequence of sextets: three per full quad, one for a last
\* group of two sextets, two for a last group of three.
RECURSIVE B64Bytes(_)
B64Bytes(x) ==
  IF Len(x) < 2 THEN << >>
  ELSE IF Len(x) = 2 THEN << x[1] * 4 + (x[2] \div 16) >>
  ELSE IF Len(x) = 3 THEN << x[1] * 4 + (x[2] \div 16), (x[2] % 16) * 16 + (x[3] \div 4) >>
  ELSE << x[1] * 4 + (x[2] \div 16), (x[2] % 16) * 16 + (x[3] \div 4), (x[3] % 4) * 64 + x[4] >>
       \o B64Bytes(Drop(x, 4))

B64DecodeOk(s) == B64Scan(s, 0, 0, << >>).ok

B64Decode(s) == B64Bytes(B64Scan(s, 0, 0, << >>).sextets)

\* base64.b64encode(bs), which a client applies to "user:password"
RECURSIVE B64Encode(_)
B64Encode(bs) ==
  IF bs = << >> THEN << >>
  ELSE IF Len(bs) = 1
       THEN << B64Alphabet[(bs[1] \div 4) + 1], B64Alphabet[(bs[1] % 4) * 16 + 1],
               B64Pad, B64Pad >>
  ELSE IF Len(bs) = 2
       THEN << B64Alphabet[(bs[1] \div 4) + 1],
               B64Alphabet[(bs[1] % 4) * 16 + (bs[2] \div 16) + 1],
               B64Alphabet[(bs[2] % 16) * 4 + 1], B64Pad >>
  ELSE << B64Alphabet[(bs[1] \div 4) + 1],
          B64Alphabet[(bs[1] % 4) * 16 + (bs[2] \div 16) + 1],
          B64Alphabet[(bs[2] % 16) * 4 + (bs[3] \div 64) + 1],
          B64Alphabet[(bs[3] % 64) + 1] >> \o B64Encode(Drop(bs, 3))

(***************************************************************************)
(* Hexadecimal text: bytes.hex() and bytes.fromhex().                      *)
(***************************************************************************)
HexDigits ==
  Str(<< "0", "1", "2", "3", "4", "5", "6", "7", "8", "9", "a", "b", "c", "d", "e", "f" >>)

RECURSIVE Hex(_)
Hex(bs) ==
  IF bs = << >> THEN << >>
  ELSE << HexDigits[(bs[1] \div 16) + 1], HexDigits[(bs[1] % 16) + 1] >> \o Hex(Tail(bs))

HexValue(ch) == (CHOOSE i \in 1..16 : HexDigits[i] = ch) - 1

RECURSIVE FromHex(_)
FromHex(s) ==
  IF Len(s) < 2 THEN << >>
  ELSE << HexValue(s[1]) * 16 + HexValue(s[2]) >> \o FromHex(Drop(s, 2))

(***************************************************************************)
(* Password hashing and the users table.                                   *)
(***************************************************************************)
SaltLen == 16

DkLen == 32

\* hashlib.pbkdf2_hmac("sha256", password, salt, 100000): DkLen bytes that
\* depend on the password and on the salt.  The key derivation is stood in
\* for by a packing of (password, salt) that is injective for passwords of
\* fewer than DkLen - SaltLen bytes without a zero byte, as PBKDF2 is taken
\* to be collision-free.
Pbkdf2(password, salt) ==
  Take(password \o << 0 >> \o salt \o [i \in 1..DkLen |-> 0], DkLen)

\* A hash of half the length: the hex of a 16-byte digest.
HashOfHalfLength(password, salt) == Hex(Take(Pbkdf2(Encode(password), salt), SaltLen))

\* _hash_password(password, salt)[0]
_hash_password(password, salt) == Hex(Pbkdf2(Encode(password), salt))

\* The value add_user stores for a password and the salt it drew.
StoredPassword(password, salt) == _hash_password(password, salt) \o Hex(salt)

\* _authenticate_user on a database whose users table exists
_authenticate_user(users, username, password) ==
  IF username \in DOMAIN users
  THEN LET stored_password == users[username]
           salt == FromHex(Last(stored_password, 2 * SaltLen))
       IN  SliceTo(stored_password, 0 - 2 * SaltLen) = _hash_password(password, salt)
  ELSE FALSE

(***************************************************************************)
(* _is_authenticated.  The outcome is "True", "False" or the name of the   *)
(* exception raised; CredentialsOf gives the (username, password) the      *)
(* database is asked about when the header parses.                         *)
(***************************************************************************)
ProxyAuthorization ==
  Str(<< "P", "r", "o", "x", "y", "-", "A", "u", "t", "h", "o", "r", "i", "z", "a",
         "t", "i", "o", "n" >>)

Basic == Str(<< "b", "a", "s", "i", "c" >>)

CRLF == Str(<< "\r", "\n" >>)

\* next((line for line in request_header.split("\r\n")
\*       if "Proxy-Authorization" in line), None)
AuthHeaderLine(request_header) ==
  LET lines == Split(request_header, CRLF)
      k == CHOOSE i \in 1..Len(lines) :
             /\ Contains(lines[i], ProxyAuthorization)
             /\ \A j \in 1..(i - 1) : ~Contains(lines[j], ProxyAuthorization)
  IN  lines[k]

\* auth_header.split(" ")[1:]
AuthFields(request_header) == Tail(Split(AuthHeaderLine(request_header), << 32 >>))

\* The outcome of the header parsing, before the database is asked:
\* "lookup" when _authenticate_user is called.
ParseAuthorization(request_header) ==
  IF ~Contains(request_header, ProxyAuthorization) THEN "False"
  ELSE LET fields == AuthFields(request_header)
       IN  IF Len(fields) # 2 THEN "ValueError"
           ELSE IF Lower(fields[1]) # Basic THEN "False"
           ELSE IF \E i \in 1..Len(fields[2]) : fields[2][i] >= 128 THEN "ValueError"
           ELSE IF ~B64DecodeOk(fields[2]) THEN "binascii.Error"
           ELSE IF ~IsValidUtf8(B64Decode(fields[2])) THEN "UnicodeDecodeError"
           ELSE IF Len(Split(Decode(B64Decode(fields[2])), << 58 >>)) # 2 THEN "ValueError"
           ELSE "lookup"

CredentialsOf(request_header) ==
  Split(Decode(B64Decode(AuthFields(request_header)[2])), << 58 >>)

\* db is the database file: "absent", "empty" (a file without the users
\* table) or "table", with the rows of the users table in db.users.
_is_authenticated(authentication, db, request_header) ==
  IF ~authentication THEN "True"
  ELSE LET parsed == ParseAuthorization(request_header)
       IN  IF parsed # "lookup" THEN parsed
           ELSE IF db.file # "table" THEN "sqlite3.OperationalError"
           ELSE IF _authenticate_user(db.users, CredentialsOf(request_header)[1],
                                    CredentialsOf(request_header)[2])
                THEN "True" ELSE "False"

\* Whether _is_authenticated opens the database (sqlite3.connect).
AuthOpensDb(authentication, request_header) ==
  authentication /\ ParseAuthorization(request_header) = "lookup"

(***************************************************************************)
(* The request target: _handle_http (lines 182-197) and _handle_https      *)
(* (lines 216-217).  exc is "none" or the exception raised.                *)
(***************************************************************************)
Connect == Str(<< "C", "O", "N", "N", "E", "C", "T" >>)

SchemeSep == Str(<< ":", "/", "/" >>)

DefaultHttpPort == 80

HttpTarget(request_header) ==
  LET first_line == Split(request_header, << 10 >>)[1]
      words == Split(first_line, << 32 >>)
  IN  IF Len(words) < 2 THEN [exc |-> "IndexError", server |-> << >>, port |-> 0]
      ELSE
        LET url == words[2]
            http_pos == Find(url, SchemeSep)
            temp == IF http_pos = -1 THEN url ELSE Drop(url, http_pos + 3)
            port_pos == Find(temp, << 58 >>)
        IN  IF port_pos = -1
            THEN [exc |-> "none", server |-> SliceTo(temp, Find(temp, << 47 >>)),
                  port |-> DefaultHttpPort]
            ELSE LET rest == Drop(temp, port_pos + 1)
                     digits == SliceTo(rest, Find(rest, << 47 >>))
                 IN  IF IsIntLiteral(digits)
                     THEN [exc |-> "none", server |-> Take(temp, port_pos),
                           port |-> ParseInt(digits)]
                     ELSE [exc |-> "ValueError", server |-> Take(temp, port_pos),
                           port |-> 0]

HttpsTarget(request_header) ==
  LET words == Split(request_header, << 32 >>)
  IN  IF Len(words) < 2 THEN [exc |-> "IndexError", server |-> << >>, port |-> 0]
      ELSE LET parts == Split(words[2], << 58 >>)
           IN  IF Len(parts) < 2
               THEN [exc |-> "IndexError", server |-> parts[1], port |-> 0]
               ELSE IF ~IsIntLiteral(parts[2])
               THEN [exc |-> "ValueError", server |-> parts[1], port |-> 0]
               ELSE [exc |-> "none", server |-> parts[1], port |-> ParseInt(parts[2])]

(***************************************************************************)
(* The inputs of the model: what clients send, what origins answer, what   *)
(* the operator types.                                                     *)
(***************************************************************************)
SP == << 32 >>

Colon == << 58 >>

HttpVersion == Str(<< "H", "T", "T", "P", "/", "1", ".", "1" >>)

Get == Str(<< "G", "E", "T" >>)

RequestLine(method, target) == method \o SP \o target \o SP \o HttpVersion \o CRLF

AuthLine(value) == ProxyAuthorization \o Str(<< ":", " " >>) \o value \o CRLF

\* "Basic base64(user:password)", as a client builds it
BasicCredentials(username, password) ==
  Str(<< "B", "a", "s", "i", "c", " " >>) \o B64Encode(Encode(username \o Colon \o password))

\* The bytes of a request head: request line, header lines, empty line.
RequestHead(request_line, headers) == Encode(request_line \o headers \o CRLF)

Alice == Str(<< "a", "l" >>)

Zoe == Str(<< "z", "o" >>)

Secret == Str(<< "s", "3" >>)

Wrong == Str(<< "w", "r" >>)

ColonSecret == Str(<< "s", ":", "3" >>)

\* The usernames and passwords the operator enters at add-user.
UserNames == {Alice}

Passwords == {Secret, ColonSecret}

\* The salts os.urandom(16) draws in the model.
Salts == {[i \in 1..SaltLen |-> 0], [i \in 1..SaltLen |-> 165]}

HostName == Str(<< "h", ".", "t" >>)

\* The names that resolve; connecting to any other name raises gaierror.
\* The empty name is the local host.
Resolvable == {HostName, << >>}

ConnectLine == RequestLine(Connect, HostName \o Str(<< ":", "4", "4", "3" >>))

HttpUrl == Str(<< "h", "t", "t", "p", ":", "/", "/" >>)

GetLine(rest) == RequestLine(Get, HttpUrl \o rest)

GetFoo == GetLine(HostName \o Str(<< "/", "f", "o", "o" >>))

\* Request heads whose Proxy-Authorization header is missing or not valid.
ConnectNoAuth == RequestHead(ConnectLine, << >>)

ConnectWrongPassword == RequestHead(ConnectLine, AuthLine(BasicCredentials(Alice, Wrong)))

ConnectUnknownUser == RequestHead(ConnectLine, AuthLine(BasicCredentials(Zoe, Secret)))

ConnectDigest ==
  RequestHead(ConnectLine, AuthLine(Str(<< "D", "i", "g", "e", "s", "t", " ", "x" >>)))

ConnectOneField == RequestHead(ConnectLine, AuthLine(Str(<< "B", "a", "s", "i", "c" >>)))

ConnectBadBase64 ==
  RequestHead(ConnectLine, AuthLine(Str(<< "B", "a", "s", "i", "c", " ", "Y", "Q" >>)))

ConnectNoColon ==
  RequestHead(ConnectLine,
       AuthLine(Str(<< "B", "a", "s", "i", "c", " " >>) \o B64Encode(Encode(Alice \o Secret))))

\* Request heads with the credentials of a user the operator can add.
ConnectAlice == RequestHead(ConnectLine, AuthLine(BasicCredentials(Alice, Secret)))

ConnectAliceColon == RequestHead(ConnectLine, AuthLine(BasicCredentials(Alice, ColonSecret)))

GetAlice == RequestHead(GetFoo, AuthLine(BasicCredentials(Alice, Secret)))

\* Absolute-URI requests: with and without a path, with and without a port,
\* and with a ':' in the path only.
GetNoPath == RequestHead(GetLine(HostName), << >>)

GetPort == RequestHead(GetLine(HostName \o Str(<< ":", "8", "1", "/" >>)), << >>)

GetPortNoPath == RequestHead(GetLine(HostName \o Str(<< ":", "8", "1" >>)), << >>)

GetColonInPath == RequestHead(GetLine(HostName \o Str(<< "/", "a", ":", "b" >>)), << >>)

GetColonDigitsInPath == RequestHead(GetLine(HostName \o Str(<< "/", "a", ":", "7", "/" >>)), << >>)

\* A request whose first read holds bytes that are not UTF-8 (a lone 255)
\* and a two-byte UTF-8 sequence (195 169).
GetBinary == RequestHead(GetFoo, << >>) \o << 195, 169, 255 >>

\* CONNECT requests whose target has no port, or a port that is no decimal
\* number of 1..65535.
ConnectNoPort == RequestHead(RequestLine(Connect, HostName), << >>)

ConnectPortWord == RequestHead(RequestLine(Connect, HostName \o Str(<< ":", "a", "b" >>)), << >>)

ConnectPortZero == RequestHead(RequestLine(Connect, HostName \o Str(<< ":", "0" >>)), << >>)

ConnectPortHigh ==
  RequestHead(RequestLine(Connect, HostName \o Str(<< ":", "7", "0", "0", "0", "0" >>)), << >>)

\* A CONNECT request to a name that does not resolve.
ConnectUnresolvable ==
  RequestHead(RequestLine(Connect, Str(<< "h", ".", ":", "4", "4", "3" >>)), << >>)

BadPortRequests == { ConnectNoPort, ConnectPortWord, ConnectPortZero, ConnectPortHigh }

\* Requests that are neither CONNECT nor absolute-URI requests: a first line
\* of one token, and a target in origin form.
Hello == Encode(Str(<< "H", "E", "L", "L", "O" >>) \o CRLF \o CRLF)

GetOriginForm == RequestHead(RequestLine(Get, Str(<< "/", "f", "o", "o" >>)), << >>)

BadRequests == { Hello, GetOriginForm }

\* A request that fails in every configuration: with authentication, in
\* _is_authenticated (one field after the header name); without, in
\* _handle_https (no port).
ConnectNoPortOneField ==
  RequestHead(RequestLine(Connect, HostName), AuthLine(Str(<< "B", "a", "s", "i", "c" >>)))

\* Valid credentials of Alice under other spellings of the header name, and
\* beside the text "Proxy-Authorization" in the request target or in the
\* value of an earlier header.
NamedAuthLine(name, value) == name \o Str(<< ":", " " >>) \o value \o CRLF

ConnectAliceLowerName ==
  RequestHead(ConnectLine,
              NamedAuthLine(Lower(ProxyAuthorization), BasicCredentials(Alice, Secret)))

ConnectAliceUpperName ==
  RequestHead(ConnectLine,
              NamedAuthLine(Str(<< "P", "R", "O", "X", "Y", "-", "A", "U", "T", "H", "O", "R",
                                   "I", "Z", "A", "T", "I", "O", "N" >>),
                            BasicCredentials(Alice, Secret)))

GetAliceTextInTarget ==
  RequestHead(GetLine(HostName \o Str(<< "/" >>) \o ProxyAuthorization),
              AuthLine(BasicCredentials(Alice, Secret)))

GetAliceTextInHeader ==
  RequestHead(GetFoo,
              NamedAuthLine(Str(<< "X" >>), ProxyAuthorization) \o
              AuthLine(BasicCredentials(Alice, Secret)))

HeaderNameRequests ==
  { ConnectAliceLowerName, ConnectAliceUpperName, GetAliceTextInTarget, GetAliceTextInHeader }

BadAuthRequests ==
  { ConnectNoAuth, ConnectWrongPassword, ConnectUnknownUser, ConnectDigest,
    ConnectOneField, ConnectBadBase64, ConnectNoColon }

Requests ==
  BadAuthRequests \cup
  { ConnectAlice, ConnectAliceColon, GetAlice, RequestHead(GetFoo, << >>), GetNoPath, GetPort,
    GetPortNoPath, GetColonInPath, GetColonDigitsInPath, GetBinary } \cup
  BadPortRequests \cup BadRequests \cup { ConnectUnresolvable } \cup HeaderNameRequests

\* The requests of the specification with several connections.
CoreRequests == { ConnectAlice, GetAlice, ConnectNoPortOneField }

\* What a client sends after its request head, and what an origin sends.
ClientPayload == << 1, 2 >>

OriginPayload == << 3, 4 >>

\* What clients send, in the segments that arrive together: the head alone,
\* the head and the payload in one segment, the head and then the payload,
\* or nothing at all.
ClientScripts(request) ==
  { << request >>, << request \o ClientPayload >>, << request, ClientPayload >>, << >> }

\* What origins send before they close: nothing, the payload in one segment,
\* or the payload byte by byte.
OriginScripts == { << >>, << OriginPayload >>, << << OriginPayload[1] >>, << OriginPayload[2] >> >> }

(***************************************************************************)
(* Bounds of the model.                                                    *)
(***************************************************************************)
\* The connections accepted in one run of the server.
MaxConn == 2

\* The runs of the server process.
MaxRuns == 2

\* The bytes a peer's socket buffers hold while the peer does not read.
SockBuf == 1

Conns == 1..MaxConn

(***************************************************************************)
(* The state.                                                              *)
(***************************************************************************)
VARIABLES
  mainPc,          \* where the main thread is: "configure_auth", "configure_port",
                   \* "confirm", "start_socket", "reconfigure_port", "cli", "exited"
  authentication,  \* self.authentication
  port,            \* self.port: << >> for None, << n >> for the integer n
  listener,        \* the listening socket: "none", "listening" or "closed"
  db,              \* the file users.db: [file, users]
  dbOps,           \* what this run has done to users.db
  runs,            \* the runs of the process so far
  conns            \* the accepted connections and their handler threads

vars == << mainPc, authentication, port, listener, db, dbOps, runs, conns >>

serverVars == << mainPc, authentication, port, listener, runs >>

HeadRecvSize == 1024

RelayRecvSize == 4096

\* A connection that has not been accepted.
IdleConn ==
  [ pc |-> "idle",
    client_left |-> << >>,      \* the segments the client has yet to send
    client_in |-> << >>,        \* sent by the client, not yet read by the server
    client_eof |-> FALSE,       \* the client has finished sending
    client_reading |-> TRUE,    \* the client still reads from its socket
    client_unread |-> 0,        \* bytes buffered for a client that does not read
    client_out |-> << >>,       \* the relayed bytes written to the client
    client_closes |-> 0,        \* the calls of client_socket.close()
    sent407 |-> 0,              \* the 407 challenges written to the client
    sent200 |-> 0,              \* the 200 Connection Established written
    request |-> << >>,          \* the bytes of the first read
    request_header |-> << >>,   \* the same, decoded
    auth |-> "none",            \* the outcome of _is_authenticated
    origin |-> "none",          \* the origin socket: "none", "created",
                                \* "connected" or "closed"
    origin_target |-> << >>,    \* << server, port >> of the connect
    origin_left |-> << >>,
    origin_in |-> << >>,
    origin_eof |-> FALSE,
    origin_reading |-> TRUE,
    origin_unread |-> 0,
    origin_out |-> << >>,       \* the bytes written to the origin
    data |-> << >>,             \* the chunk being relayed
    read_sockets |-> << >>,     \* the readable sockets select returned
    keep_alive |-> TRUE,
    io_error |-> FALSE,         \* a call on a socket raised socket.error
    client_sent |-> << >>,      \* every byte the client has sent
    origin_sent |-> << >> ]     \* every byte the origin has sent

\* The accept thread is a daemon thread (server.py:38), and a thread is a
\* daemon thread when the thread that creates it is one: so is every handler
\* thread (server.py:137).  The process lives while its main thread runs.
HandlerRunning(c) == conns[c].pc \notin {"idle", "done", "killed"}

ProcessAlive == mainPc # "exited"

\* A handler thread that the end of the process has stopped: its sockets are
\* closed by the system, its locals are gone.
Killed == [IdleConn EXCEPT !.pc = "killed"]

\* The main thread ends (sys.exit, or an exception nothing catches): the
\* daemon threads stop where they are, and the system closes every socket
\* of the process.
EndOfProcess ==
  /\ mainPc' = "exited"
  /\ listener' = IF listener = "listening" THEN "closed" ELSE listener
  /\ conns' = [c \in Conns |-> IF HandlerRunning(c) THEN Killed ELSE conns[c]]

Init ==
  /\ mainPc = "configure_auth"
  /\ authentication = FALSE
  /\ port = << >>
  /\ listener = "none"
  /\ db = [file |-> "absent", users |-> << >>]
  /\ dbOps = {}
  /\ runs = 1
  /\ conns = [c \in Conns |-> IdleConn]

(***************************************************************************)
(* The main thread: start_server, _configure, _start_socket and the        *)
(* command loop.  Each action is one answer of the operator, or one        *)
(* attempt to bind.                                                        *)
(***************************************************************************)
DefaultPort == 8080

\* What the operator types at the port prompt: Enter, "70000" and "ab".
PortInputs == { << >>, Str(<< "7", "0", "0", "0", "0" >>), Str(<< "a", "b" >>) }

\* _setup_database: CREATE TABLE IF NOT EXISTS users
_setup_database(d) ==
  [file |-> "table", users |-> IF d.file = "table" THEN d.users ELSE << >>]

\* _configure_auth, and _setup_database when authentication is activated
_configure_auth(auth) ==
  /\ mainPc = "configure_auth"
  /\ authentication' = (auth \in {"yes", "y"})
  /\ IF authentication'
     THEN db' = _setup_database(db) /\ dbOps' = dbOps \cup {"open", "write"}
     ELSE UNCHANGED << db, dbOps >>
  /\ mainPc' = "configure_port"
  /\ UNCHANGED << port, listener, runs, conns >>

\* _configure_port: one answer at the prompt; an answer that is no integer
\* is asked again.  The prompt is reached from _configure and, after a
\* failed bind, from _start_socket.
_configure_port(port_input) ==
  /\ mainPc \in {"configure_port", "reconfigure_port"}
  /\ IF Lower(port_input) = << >>
     THEN /\ port' = << DefaultPort >>
          /\ mainPc' = IF mainPc = "configure_port" THEN "confirm" ELSE "start_socket"
     ELSE IF IsIntLiteral(port_input)
     THEN /\ port' = << ParseInt(port_input) >>
          /\ mainPc' = IF mainPc = "configure_port" THEN "confirm" ELSE "start_socket"
     ELSE UNCHANGED << port, mainPc >>
  /\ UNCHANGED << authentication, listener, db, dbOps, runs, conns >>

\* _confirm_port_forwarding_setup: "yes" goes on, "cancel" ends the process
\* with sys.exit(0), any other answer is asked again.
_confirm_port_forwarding_setup(confirmation) ==
  /\ mainPc = "confirm"
  /\ mainPc' = IF confirmation \in {"yes", "y"} THEN "start_socket"
               ELSE IF confirmation \in {"cancel", "c"} THEN "exited"
               ELSE "confirm"
  /\ UNCHANGED << authentication, port, listener, db, dbOps, runs, conns >>

\* _start_socket: bind and listen.  A port outside 0..65535 raises
\* OverflowError, which nothing catches: the main thread ends.  A socket.error
\* (bound is FALSE) asks for the port again.  On success start_server starts
\* the accept thread and enters the command loop.
_start_socket(bound) ==
  /\ mainPc = "start_socket"
  /\ IF port[1] < 0 \/ port[1] > 65535
     THEN mainPc' = "exited" /\ UNCHANGED listener
     ELSE IF bound
     THEN mainPc' = "cli" /\ listener' = "listening"
     ELSE mainPc' = "reconfigure_port" /\ UNCHANGED listener
  /\ UNCHANGED << authentication, port, db, dbOps, runs, conns >>

\* An add_user that replaces the row of a username that exists.
AddUserReplaces(d, username, password, salt) ==
  [d EXCEPT !.users = (username :> (_hash_password(password, salt) \o Hex(salt))) @@ d.users]

\* add_user on a database whose users table exists: a duplicate username
\* raises IntegrityError, which is caught.
add_user(d, username, password, salt) ==
  IF username \in DOMAIN d.users THEN d
  ELSE [d EXCEPT !.users = d.users @@ (username :> (_hash_password(password, salt) \o Hex(salt)))]

\* The add-user command (_execute_add_user_command).
_execute_add_user_command(username, password, salt) ==
  /\ mainPc = "cli"
  /\ IF ~authentication
     THEN UNCHANGED << db, dbOps, mainPc, listener, conns >>
     ELSE IF db.file = "table"
     THEN /\ db' = add_user(db, username, password, salt)
          /\ dbOps' = dbOps \cup {"open", "write"} \cup
                        (IF username \in DOMAIN db.users THEN {"IntegrityError"} ELSE {})
          /\ UNCHANGED << mainPc, listener, conns >>
     ELSE \* sqlite3.OperationalError, which add_user does not catch
          /\ db' = [db EXCEPT !.file = "empty"]
          /\ dbOps' = dbOps \cup {"open"}
          /\ EndOfProcess
  /\ UNCHANGED << authentication, port, runs >>

\* An exit command after which the handler threads run on and the listening
\* socket stays open, as with handler threads that are no daemon threads.
ExitLeavesThreads ==
  /\ mainPc = "cli"
  /\ IF db.file # "absent"
     THEN db' = [file |-> "absent", users |-> << >>] /\ dbOps' = dbOps \cup {"remove"}
     ELSE UNCHANGED << db, dbOps >>
  /\ mainPc' = "exited"
  /\ UNCHANGED << authentication, port, listener, runs, conns >>

\* The exit command (_cleanup_and_exit): the database file is removed if it
\* exists, then sys.exit(0) ends the main thread, and with it the process.
\* No statement closes the listening socket.
_cleanup_and_exit ==
  /\ mainPc = "cli"
  /\ IF db.file # "absent"
     THEN db' = [file |-> "absent", users |-> << >>] /\ dbOps' = dbOps \cup {"remove"}
     ELSE UNCHANGED << db, dbOps >>
  /\ EndOfProcess
  /\ UNCHANGED << authentication, port, runs >>

\* The server is started again (launcher.setup_server_proxy) once the
\* process has ended; users.db is what the earlier run left.
setup_server_proxy ==
  /\ ~ProcessAlive
  /\ runs < MaxRuns
  /\ runs' = runs + 1
  /\ mainPc' = "configure_auth"
  /\ authentication' = FALSE
  /\ port' = << >>
  /\ listener' = "none"
  /\ dbOps' = {}
  /\ conns' = [c \in Conns |-> IdleConn]
  /\ UNCHANGED db

(***************************************************************************)
(* The accept thread and the peers of a connection.                        *)
(***************************************************************************)
\* The except clauses of _handle_https: client_socket.close(), and the
\* function returns.
_handle_https_except(k) ==
  [k EXCEPT !.client_closes = k.client_closes + 1, !.pc = "finally"]

\* The finally clause of _process_client_request: client_socket.close(), and
\* the thread ends.  Its locals are gone, and what the peers sent and the
\* server did not read is discarded with the sockets.
_process_client_request_finally(k) ==
  [k EXCEPT !.client_closes = k.client_closes + 1,
            !.pc = "done",
            !.client_left = << >>, !.client_in = << >>, !.client_eof = FALSE,
            !.client_reading = TRUE, !.client_unread = 0,
            !.origin_left = << >>, !.origin_in = << >>, !.origin_eof = FALSE,
            !.origin_reading = TRUE, !.origin_unread = 0,
            !.data = << >>, !.read_sockets = << >>, !.keep_alive = TRUE]

\* A step of a handler thread runs on through the except and finally
\* clauses it reaches: they call nothing that blocks.
RunOn(k) ==
  IF k.pc = "https_except" THEN _process_client_request_finally(_handle_https_except(k))
  ELSE IF k.pc = "finally" THEN _process_client_request_finally(k)
  ELSE k

Set(c, k) == conns' = [conns EXCEPT ![c] = RunOn(k)]

\* An accept loop that an error of a handler ends.
AcceptLoopEndsOnFailure(c, client_script, origin_script) ==
  /\ listener = "listening"
  /\ ProcessAlive
  /\ conns[c].pc = "idle"
  /\ \A d \in Conns : d < c => conns[d].pc # "idle"
  /\ \A d \in Conns : ~(conns[d].pc = "done" /\ conns[d].origin \in {"none", "created"})
  /\ Set(c, [IdleConn EXCEPT !.pc = "recv_head", !.client_left = client_script,
                             !.origin_left = origin_script])
  /\ UNCHANGED << serverVars, db, dbOps >>

\* _handle_connections: accept a connection and start its handler thread.
\* The client will send client_script and the origin, once connected,
\* origin_script.
_handle_connections(c, client_script, origin_script) ==
  /\ listener = "listening"
  /\ ProcessAlive
  /\ conns[c].pc = "idle"
  /\ \A d \in Conns : d < c => conns[d].pc # "idle"
  /\ Set(c, [IdleConn EXCEPT !.pc = "recv_head", !.client_left = client_script,
                             !.origin_left = origin_script])
  /\ UNCHANGED << serverVars, db, dbOps >>

\* The client sends its next segment.
ClientSends(c) ==
  LET k == conns[c] IN
  /\ HandlerRunning(c)
  /\ k.client_left # << >>
  /\ Set(c, [k EXCEPT !.client_in = k.client_in \o Head(k.client_left),
                      !.client_sent = k.client_sent \o Head(k.client_left),
                      !.client_left = Tail(k.client_left)])
  /\ UNCHANGED << serverVars, db, dbOps >>

\* The client has sent everything and closes its sending direction.
ClientCloses(c) ==
  LET k == conns[c] IN
  /\ HandlerRunning(c)
  /\ k.client_left = << >> /\ ~k.client_eof
  /\ Set(c, [k EXCEPT !.client_eof = TRUE])
  /\ UNCHANGED << serverVars, db, dbOps >>

\* The origin sends its next segment.
OriginSends(c) ==
  LET k == conns[c] IN
  /\ HandlerRunning(c)
  /\ k.origin = "connected" /\ k.origin_left # << >>
  /\ Set(c, [k EXCEPT !.origin_in = k.origin_in \o Head(k.origin_left),
                      !.origin_sent = k.origin_sent \o Head(k.origin_left),
                      !.origin_left = Tail(k.origin_left)])
  /\ UNCHANGED << serverVars, db, dbOps >>

\* The origin has sent everything and closes.
OriginCloses(c) ==
  LET k == conns[c] IN
  /\ HandlerRunning(c)
  /\ k.origin = "connected" /\ k.origin_left = << >> /\ ~k.origin_eof
  /\ Set(c, [k EXCEPT !.origin_eof = TRUE])
  /\ UNCHANGED << serverVars, db, dbOps >>

InTunnel(c) == conns[c].pc \in {"tunnel_select", "tunnel_recv", "tunnel_sendall"}

\* A peer of a tunnel stops reading from its socket, for good.
ClientStopsReading(c) ==
  /\ InTunnel(c) /\ conns[c].client_reading
  /\ Set(c, [conns[c] EXCEPT !.client_reading = FALSE])
  /\ UNCHANGED << serverVars, db, dbOps >>

OriginStopsReading(c) ==
  /\ InTunnel(c) /\ conns[c].origin_reading
  /\ Set(c, [conns[c] EXCEPT !.origin_reading = FALSE])
  /\ UNCHANGED << serverVars, db, dbOps >>

\* How many of n bytes a blocking write can hand to the socket now: all of
\* them while the peer reads, and what its buffer still holds otherwise.
Room(reading, unread, n) == IF reading THEN n ELSE Min(n, SockBuf - unread)

(***************************************************************************)
(* The handler thread of connection c: _process_client_request and what it *)
(* calls.  Each action is one blocking call on a socket or on the database *)
(* with the computation that follows it, up to the next blocking call or   *)
(* the end of the thread; fail is the call raising socket.error (the peer  *)
(* has reset the connection).                                              *)
(***************************************************************************)

\* request_header = client_socket.recv(1024).decode(errors="ignore")
_process_client_request(c, fail) ==
  LET k == conns[c] IN
  /\ k.pc = "recv_head"
  /\ IF fail
     THEN Set(c, [k EXCEPT !.io_error = TRUE, !.pc = "finally"])
     ELSE /\ k.client_in # << >> \/ k.client_eof
          /\ Set(c, [k EXCEPT !.request = Take(k.client_in, HeadRecvSize),
                              !.client_in = Drop(k.client_in, HeadRecvSize),
                              !.request_header = Decode(Take(k.client_in, HeadRecvSize)),
                              !.pc = "auth"])
  /\ UNCHANGED << serverVars, db, dbOps >>

\* A dispatch that routes the request whatever _is_authenticated returns.
RoutesUnauthorized(c) ==
  LET k == conns[c]
      outcome == _is_authenticated(authentication, db, k.request_header)
  IN
  /\ k.pc = "auth"
  /\ UNCHANGED << db, dbOps >>
  /\ Set(c, [k EXCEPT !.auth = outcome,
                      !.pc = IF outcome \in {"True", "False"}
                             THEN (IF StartsWith(k.request_header, Connect)
                                   THEN "https_connect" ELSE "http_connect")
                             ELSE "finally"])
  /\ UNCHANGED serverVars

\* if self._is_authenticated(request_header): ... else: ...
\* sqlite3.connect creates users.db when the file is absent.
Authorize(c) ==
  LET k == conns[c]
      outcome == _is_authenticated(authentication, db, k.request_header)
  IN
  /\ k.pc = "auth"
  /\ IF AuthOpensDb(authentication, k.request_header)
     THEN /\ dbOps' = dbOps \cup {"open", "read"}
          /\ db' = IF db.file = "absent" THEN [db EXCEPT !.file = "empty"] ELSE db
     ELSE UNCHANGED << db, dbOps >>
  /\ Set(c, [k EXCEPT !.auth = outcome,
                      !.pc = IF outcome = "True"
                             THEN (IF StartsWith(k.request_header, Connect)
                                   THEN "https_connect" ELSE "http_connect")
                             ELSE IF outcome = "False" THEN "send_407"
                             ELSE "finally"])
  /\ UNCHANGED serverVars

\* _request_authentication: sendall of the 407 challenge
_request_authentication(c, fail) ==
  LET k == conns[c] IN
  /\ k.pc = "send_407"
  /\ Set(c, [k EXCEPT !.sent407 = IF fail THEN k.sent407 ELSE k.sent407 + 1,
                      !.io_error = fail,
                      !.pc = "finally"])
  /\ UNCHANGED << serverVars, db, dbOps >>

\* The outcome of socket.connect((server, port)) when the origin would
\* accept (accepts) or refuse the connection.
ConnectOutcome(server, target_port, accepts) ==
  IF target_port < 0 \/ target_port > 65535 THEN "OverflowError"
  ELSE IF server \notin Resolvable THEN "gaierror"
  ELSE IF target_port = 0 \/ ~accepts THEN "ConnectionRefusedError"
  ELSE "connected"

\* _handle_http, lines 182-200: the target of the request, the socket, the
\* connect.  IndexError, ValueError and OverflowError leave _handle_http;
\* socket.error is caught and logged.  Neither path closes the socket s.
_handle_http_connect(c, accepts) ==
  LET k == conns[c]
      target == HttpTarget(k.request_header)
  IN
  /\ k.pc = "http_connect"
  /\ IF target.exc # "none"
     THEN Set(c, [k EXCEPT !.pc = "finally"])
     ELSE LET outcome == ConnectOutcome(target.server, target.port, accepts)
          IN  Set(c, [k EXCEPT !.origin_target = << target.server, target.port >>,
                               !.origin = IF outcome = "connected" THEN "connected" ELSE "created",
                               !.pc = IF outcome = "connected" THEN "http_sendall" ELSE "finally"])
  /\ UNCHANGED << serverVars, db, dbOps >>

\* A forwarder that reads what the client has sent since the first read, and
\* writes it to the origin after the head.
SendsPendingToo(c, fail) ==
  LET k == conns[c] IN
  /\ k.pc = "http_sendall"
  /\ IF fail
     THEN Set(c, [k EXCEPT !.io_error = TRUE, !.pc = "finally"])
     ELSE Set(c, [k EXCEPT !.origin_out = k.origin_out \o Encode(k.request_header) \o k.client_in,
                           !.client_in = << >>,
                           !.pc = "http_recv"])
  /\ UNCHANGED << serverVars, db, dbOps >>

\* A forwarder that takes the Proxy-Authorization line out of the head before
\* it writes the head to the origin.
StripsCredentials(c, fail) ==
  LET k == conns[c]
      line == AuthHeaderLine(k.request_header) \o CRLF
      at == Find(k.request_header, line)
      stripped == IF Contains(k.request_header, ProxyAuthorization) /\ at # -1
                  THEN Take(k.request_header, at) \o Drop(k.request_header, at + Len(line))
                  ELSE k.request_header
  IN
  /\ k.pc = "http_sendall"
  /\ IF fail
     THEN Set(c, [k EXCEPT !.io_error = TRUE, !.pc = "finally"])
     ELSE Set(c, [k EXCEPT !.origin_out = k.origin_out \o Encode(stripped),
                           !.pc = "http_recv"])
  /\ UNCHANGED << serverVars, db, dbOps >>

\* s.sendall(request_header.encode())
_handle_http_sendall(c, fail) ==
  LET k == conns[c] IN
  /\ k.pc = "http_sendall"
  /\ IF fail
     THEN Set(c, [k EXCEPT !.io_error = TRUE, !.pc = "finally"])
     ELSE Set(c, [k EXCEPT !.origin_out = k.origin_out \o Encode(k.request_header),
                           !.pc = "http_recv"])
  /\ UNCHANGED << serverVars, db, dbOps >>

\* data = s.recv(4096); on the end of the stream, break and s.close()
_handle_http_recv(c, fail) ==
  LET k == conns[c] IN
  /\ k.pc = "http_recv"
  /\ IF fail
     THEN Set(c, [k EXCEPT !.io_error = TRUE, !.pc = "finally"])
     ELSE /\ k.origin_in # << >> \/ k.origin_eof
          /\ IF k.origin_in # << >>
             THEN Set(c, [k EXCEPT !.data = Take(k.origin_in, RelayRecvSize),
                                   !.origin_in = Drop(k.origin_in, RelayRecvSize),
                                   !.pc = "http_send"])
             ELSE Set(c, [k EXCEPT !.origin = "closed", !.pc = "finally"])
  /\ UNCHANGED << serverVars, db, dbOps >>

\* client_socket.send(data): the socket takes the first n bytes of data, and
\* the return value is not looked at.  n = 0 stands for socket.error.
_handle_http_send(c, n) ==
  LET k == conns[c] IN
  /\ k.pc = "http_send"
  /\ n \in 0..Len(k.data)
  /\ IF n = 0
     THEN Set(c, [k EXCEPT !.io_error = TRUE, !.pc = "finally"])
     ELSE Set(c, [k EXCEPT !.client_out = k.client_out \o Take(k.data, n),
                           !.data = << >>,
                           !.pc = "http_recv"])
  /\ UNCHANGED << serverVars, db, dbOps >>

\* A _handle_https that answers 200 whatever the connect to the origin gives.
EstablishedWithoutOrigin(c, accepts) ==
  LET k == conns[c]
      target == HttpsTarget(k.request_header)
  IN
  /\ k.pc = "https_connect"
  /\ IF target.exc # "none"
     THEN Set(c, [k EXCEPT !.pc = "https_except"])
     ELSE LET outcome == ConnectOutcome(target.server, target.port, accepts)
          IN  Set(c, [k EXCEPT !.origin_target = << target.server, target.port >>,
                               !.origin = IF outcome = "connected" THEN "connected" ELSE "created",
                               !.pc = "https_200"])
  /\ UNCHANGED << serverVars, db, dbOps >>

\* _handle_https, lines 216-220: the target, the socket, the connect.  Every
\* exception is caught in _handle_https.
_handle_https_connect(c, accepts) ==
  LET k == conns[c]
      target == HttpsTarget(k.request_header)
  IN
  /\ k.pc = "https_connect"
  /\ IF target.exc # "none"
     THEN Set(c, [k EXCEPT !.pc = "https_except"])
     ELSE LET outcome == ConnectOutcome(target.server, target.port, accepts)
          IN  Set(c, [k EXCEPT !.origin_target = << target.server, target.port >>,
                               !.origin = IF outcome = "connected" THEN "connected" ELSE "created",
                               !.pc = IF outcome = "connected" THEN "https_200" ELSE "https_except"])
  /\ UNCHANGED << serverVars, db, dbOps >>

\* client_socket.sendall(b"HTTP/1.1 200 Connection Established\r\n\r\n")
_handle_https_established(c, fail) ==
  LET k == conns[c] IN
  /\ k.pc = "https_200"
  /\ IF fail
     THEN Set(c, [k EXCEPT !.io_error = TRUE, !.pc = "https_except"])
     ELSE Set(c, [k EXCEPT !.sent200 = k.sent200 + 1, !.pc = "tunnel_select"])
  /\ UNCHANGED << serverVars, db, dbOps >>

\* No statement closes the origin socket of _handle_https, nor the one of
\* _handle_http on its error paths: once the function has returned, the
\* socket object is unreachable, and the runtime may finalize it, which
\* closes it, at a time of its choosing.
Finalize(c) ==
  LET k == conns[c] IN
  /\ k.pc = "done"
  /\ k.origin \in {"created", "connected"}
  /\ Set(c, [k EXCEPT !.origin = "closed"])
  /\ UNCHANGED << serverVars, db, dbOps >>

(***************************************************************************)
(* _tunnel_data.                                                           *)
(***************************************************************************)
Readable(pending, eof) == pending # << >> \/ eof

\* Where the thread goes after one socket of read_sockets is done with: to
\* the next one, to the next select, or out of the loop and of _handle_https.
AfterSocket(rest, keep_alive) ==
  IF rest # << >> THEN "tunnel_recv"
  ELSE IF keep_alive THEN "tunnel_select" ELSE "finally"

\* select.select(sockets_list, [], sockets_list, None) returns once a socket
\* is readable or has an exceptional condition (err); the readable sockets
\* come in the order of sockets_list.
_tunnel_data_select(c, err) ==
  LET k == conns[c]
      read_sockets ==
        (IF Readable(k.client_in, k.client_eof) THEN << "client" >> ELSE << >>) \o
        (IF Readable(k.origin_in, k.origin_eof) THEN << "origin" >> ELSE << >>)
  IN
  /\ k.pc = "tunnel_select"
  /\ err \/ read_sockets # << >>
  /\ Set(c, [k EXCEPT !.read_sockets = read_sockets,
                      !.keep_alive = ~err,
                      !.io_error = k.io_error \/ err,
                      !.pc = AfterSocket(read_sockets, ~err)])
  /\ UNCHANGED << serverVars, db, dbOps >>

\* data = sock.recv(4096) for the first socket of read_sockets; on the end
\* of the stream keep_alive = False, and the for loop goes on.
_tunnel_data_recv(c, fail) ==
  LET k == conns[c]
      from_client == Head(k.read_sockets) = "client"
      pending == IF from_client THEN k.client_in ELSE k.origin_in
      rest == Tail(k.read_sockets)
  IN
  /\ k.pc = "tunnel_recv"
  /\ IF fail
     THEN Set(c, [k EXCEPT !.io_error = TRUE, !.pc = "https_except"])
     ELSE IF pending # << >>
     THEN Set(c, [k EXCEPT !.data = Take(pending, RelayRecvSize),
                           !.client_in = IF from_client THEN Drop(pending, RelayRecvSize) ELSE @,
                           !.origin_in = IF from_client THEN @ ELSE Drop(pending, RelayRecvSize),
                           !.pc = "tunnel_sendall"])
     ELSE Set(c, [k EXCEPT !.keep_alive = FALSE,
                           !.read_sockets = rest,
                           !.pc = AfterSocket(rest, FALSE)])
  /\ UNCHANGED << serverVars, db, dbOps >>

\* A relay that writes data back to the socket it was read from.
SendsBackToSender(c, fail) ==
  LET k == conns[c]
      to_origin == Head(k.read_sockets) = "origin"
      n == IF to_origin THEN Room(k.origin_reading, k.origin_unread, Len(k.data))
           ELSE Room(k.client_reading, k.client_unread, Len(k.data))
      rest == Tail(k.read_sockets)
      written == [k EXCEPT !.data = Drop(k.data, n),
                           !.origin_out = IF to_origin THEN @ \o Take(k.data, n) ELSE @,
                           !.origin_unread = IF to_origin /\ ~k.origin_reading THEN @ + n ELSE @,
                           !.client_out = IF to_origin THEN @ ELSE @ \o Take(k.data, n),
                           !.client_unread = IF ~to_origin /\ ~k.client_reading THEN @ + n ELSE @]
  IN
  /\ k.pc = "tunnel_sendall"
  /\ IF fail
     THEN Set(c, [k EXCEPT !.io_error = TRUE, !.pc = "https_except"])
     ELSE /\ n > 0
          /\ IF n = Len(k.data)
             THEN Set(c, [written EXCEPT !.read_sockets = rest,
                                         !.pc = AfterSocket(rest, k.keep_alive)])
             ELSE Set(c, written)
  /\ UNCHANGED << serverVars, db, dbOps >>

\* other_socket.sendall(data): the call returns once all of data has been
\* handed to the socket, and blocks while the peer's buffer is full.
_tunnel_data_sendall(c, fail) ==
  LET k == conns[c]
      to_origin == Head(k.read_sockets) = "client"
      n == IF to_origin THEN Room(k.origin_reading, k.origin_unread, Len(k.data))
           ELSE Room(k.client_reading, k.client_unread, Len(k.data))
      rest == Tail(k.read_sockets)
      done == n = Len(k.data)
      written == [k EXCEPT !.data = Drop(k.data, n),
                           !.origin_out = IF to_origin THEN @ \o Take(k.data, n) ELSE @,
                           !.origin_unread = IF to_origin /\ ~k.origin_reading THEN @ + n ELSE @,
                           !.client_out = IF to_origin THEN @ ELSE @ \o Take(k.data, n),
                           !.client_unread = IF ~to_origin /\ ~k.client_reading THEN @ + n ELSE @]
  IN
  /\ k.pc = "tunnel_sendall"
  /\ IF fail
     THEN Set(c, [k EXCEPT !.io_error = TRUE, !.pc = "https_except"])
     ELSE /\ n > 0
          /\ IF done
             THEN Set(c, [written EXCEPT !.read_sockets = rest,
                                         !.pc = AfterSocket(rest, k.keep_alive)])
             ELSE Set(c, written)
  /\ UNCHANGED << serverVars, db, dbOps >>

(***************************************************************************)
(* The specifications.                                                     *)
(***************************************************************************)
Handler(c) ==
  \/ \E fail \in BOOLEAN : _process_client_request(c, fail)
  \/ Authorize(c)
  \/ \E fail \in BOOLEAN : _request_authentication(c, fail)
  \/ \E accepts \in BOOLEAN : _handle_http_connect(c, accepts)
  \/ \E fail \in BOOLEAN : _handle_http_sendall(c, fail)
  \/ \E fail \in BOOLEAN : _handle_http_recv(c, fail)
  \/ \E n \in 0..Len(OriginPayload) : _handle_http_send(c, n)
  \/ \E accepts \in BOOLEAN : _handle_https_connect(c, accepts)
  \/ \E fail \in BOOLEAN : _handle_https_established(c, fail)
  \/ \E err \in BOOLEAN : _tunnel_data_select(c, err)
  \/ \E fail \in BOOLEAN : _tunnel_data_recv(c, fail)
  \/ \E fail \in BOOLEAN : _tunnel_data_sendall(c, fail)

Peers(c) ==
  \/ ClientSends(c)
  \/ ClientCloses(c)
  \/ OriginSends(c)
  \/ OriginCloses(c)

OperatorWith(usernames, passwords) ==
  \/ \E auth \in {"yes", "no"} : _configure_auth(auth)
  \/ \E port_input \in PortInputs : _configure_port(port_input)
  \/ \E confirmation \in {"yes", "cancel", "no"} : _confirm_port_forwarding_setup(confirmation)
  \/ \E bound \in BOOLEAN : _start_socket(bound)
  \/ \E username \in usernames, password \in passwords, salt \in Salts :
       _execute_add_user_command(username, password, salt)
  \/ _cleanup_and_exit
  \/ setup_server_proxy

Operator == OperatorWith(UserNames, Passwords)

\* The server with its operator and MaxConn connections per run.  Every
\* client sends its request head and closes; every origin sends one segment
\* and closes.
Next ==
  \/ Operator
  \/ \E c \in Conns :
       \/ \E request \in CoreRequests :
            _handle_connections(c, << request >>, << OriginPayload >>)
       \/ Handler(c)
       \/ Peers(c)

Spec == Init /\ [][Next]_vars

\* One connection to a server that is listening, over every request, every
\* client and origin script, and peers that may stop reading in a tunnel.
\* The initial states are the states in which Spec enters the command loop,
\* and after add-user commands.
InitConn ==
  /\ mainPc = "cli"
  /\ authentication \in BOOLEAN
  /\ port = << DefaultPort >>
  /\ listener = "listening"
  /\ db \in IF authentication
            THEN {[file |-> "table", users |-> << >>]} \cup
                 {add_user([file |-> "table", users |-> << >>], username, password, salt) :
                    username \in UserNames, password \in Passwords, salt \in Salts}
            ELSE {[file |-> "absent", users |-> << >>]}
  /\ dbOps = IF authentication THEN {"open", "write"} ELSE {}
  /\ runs = 1
  /\ conns = [c \in Conns |-> IdleConn]

NextConn ==
  \/ \E request \in Requests :
       \E client_script \in ClientScripts(request), origin_script \in OriginScripts :
         _handle_connections(1, client_script, origin_script)
  \/ Handler(1)
  \/ Finalize(1)
  \/ Peers(1)
  \/ ClientStopsReading(1)
  \/ OriginStopsReading(1)

SpecConn == InitConn /\ [][NextConn]_vars

\* One connection to a server whose database file is lost while it runs:
\* db_path names a file of the working directory ("users.db"), which another
\* process can remove; the next sqlite3.connect makes an empty file, and the
\* SELECT of _authenticate_user finds no users table.
DatabaseLost ==
  /\ authentication
  /\ db.file = "table"
  /\ db' = [file |-> "absent", users |-> << >>]
  /\ UNCHANGED << serverVars, dbOps, conns >>

NextDbLost == NextConn \/ DatabaseLost

SpecDbLost == InitConn /\ [][NextDbLost]_vars

\* The main thread alone: the operator configures, starts, adds users, ends
\* and restarts the server, and no client connects.  The operator adds two
\* users, with every password of the model.
StoreUserNames == {Alice, Zoe}

StorePasswords == Passwords \cup {Wrong}

NextOperator == OperatorWith(StoreUserNames, StorePasswords)

SpecOperator == Init /\ [][NextOperator]_vars

(***************************************************************************)
(* The claims.                                                             *)
(***************************************************************************)
Done(c) == conns[c].pc = "done"

\* The connection was tunnelled: the 200 response was written.
Tunnelled(c) == conns[c].sent200 > 0

\* The connection was forwarded: the request head was written to the origin.
Forwarded(c) == conns[c].sent200 = 0 /\ conns[c].origin_out # << >>

\* C1: on every path of _process_client_request, close() is performed on the
\* client socket exactly once.
C1_ClientClosedExactlyOnce ==
  \A c \in Conns : Done(c) => conns[c].client_closes = 1

\* C2: once the handler has returned, the client socket is closed and every
\* origin socket the handler connected is closed too.
C2_SocketsClosedAfterReturn ==
  \A c \in Conns :
    Done(c) => conns[c].client_closes >= 1 /\ conns[c].origin # "connected"

\* C3: with authentication enabled, a connection whose request head lacks a
\* valid Proxy-Authorization header is answered with the 407 challenge
\* exactly once and closed, and no origin socket is created for it (unless
\* writing the challenge itself fails).
C3_InvalidCredentialsGet407 ==
  \A c \in Conns :
    (authentication /\ Done(c) /\ ~conns[c].io_error /\ conns[c].request \in BadAuthRequests)
      => conns[c].sent407 = 1 /\ conns[c].origin = "none" /\ conns[c].client_closes >= 1

\* C4: for the user added with add_user(U, P), a request with
\* "Proxy-Authorization: Basic base64(U:P)" is authorized, and one with another
\* password is not; for every password, also one that holds a ':'.
C4_AddedUserIsAuthorized ==
  \A c \in Conns : \A password \in Passwords \cup {Wrong} :
    ( /\ authentication
      /\ conns[c].auth # "none"
      /\ conns[c].request = RequestHead(ConnectLine, AuthLine(BasicCredentials(Alice, password))) )
    => ( conns[c].auth = "True"
         <=> \E salt \in Salts :
               db = add_user([file |-> "table", users |-> << >>], Alice, password, salt) )

\* C5: while authentication is disabled, no operation of the server opens,
\* reads, writes or removes the database file.
C5_AuthDisabledLeavesDatabase == ~authentication => dbOps = {}

\* C6: when a tunnel has ended without an error on a socket, the origin has
\* been written every byte the client sent after the CONNECT head (the head
\* ends with the first empty line), and the client every byte the origin
\* sent.
C6_TunnelDeliversEveryByte ==
  \A c \in Conns :
    LET k == conns[c]
        head_len == Find(k.client_sent, CRLF \o CRLF) + 4
    IN  (Done(c) /\ Tunnelled(c) /\ ~k.io_error)
          => /\ k.origin_out = Drop(k.client_sent, head_len)
             /\ k.client_out = k.origin_sent

\* The relay thread is inside sendall towards a peer that has stopped
\* reading and whose buffer is full, while that peer's own bytes wait to be
\* read: the thread never leaves the call, and reads from neither socket.
BlockedInWrite(c) ==
  LET k == conns[c] IN
  /\ k.pc = "tunnel_sendall"
  /\ IF Head(k.read_sockets) = "client"
     THEN ~k.origin_reading /\ k.origin_unread = SockBuf /\ k.origin_in # << >>
     ELSE ~k.client_reading /\ k.client_unread = SockBuf /\ k.client_in # << >>

\* C7: the relay is never blocked for good in a write towards a peer that
\* has stopped reading while it keeps writing.
C7_RelayNeverBlockedInWrite == \A c \in Conns : ~BlockedInWrite(c)

\* C8: in forwarding mode the bytes written to the origin are the bytes of
\* the first read from the client.
C8_HeadForwardedVerbatim ==
  \A c \in Conns : Forwarded(c) => conns[c].origin_out = conns[c].request

\* C9: in forwarding mode, when the origin has closed and no call on a socket
\* has failed, the client has been written every byte the origin sent.
C9_ResponseRelayedInFull ==
  \A c \in Conns :
    (Done(c) /\ Forwarded(c) /\ ~conns[c].io_error)
      => conns[c].client_out = conns[c].origin_sent

\* C10: for a request that is not CONNECT and whose target is an absolute URI
\* scheme://authority[/path], the forwarder connects to (host, port), where
\* the authority ends at the first '/' after the scheme, a ':' in the
\* authority separates host and decimal port, and without one host is the
\* authority and port is 80; a ':' in the path changes neither.
C10_ForwarderConnectsToAuthority ==
  \A c \in Conns :
    LET k == conns[c]
        url == Split(Split(k.request_header, CRLF)[1], SP)[2]
        rest == Drop(url, Find(url, SchemeSep) + 3)
        authority == IF Contains(rest, << 47 >>) THEN Take(rest, Find(rest, << 47 >>)) ELSE rest
        host == IF Contains(authority, Colon) THEN Take(authority, Find(authority, Colon))
                ELSE authority
        hostport == IF Contains(authority, Colon)
                    THEN ParseInt(Drop(authority, Find(authority, Colon) + 1))
                    ELSE 80
    IN  ( /\ k.auth = "True"
          /\ k.pc \notin {"auth", "http_connect"}
          /\ StartsWith(k.request_header, Get)
          /\ Contains(url, SchemeSep) )
        => k.origin_target = << host, hostport >>

\* C11: a CONNECT request whose target has no port, or whose port is no
\* decimal number of 1..65535, fails as a bad request: no connection to an
\* origin is attempted (no origin socket is made and connected), the 200
\* response is not sent, and the client socket is closed.
C11_BadConnectTargetRejected ==
  \A c \in Conns :
    LET k == conns[c] IN
    (Done(c) /\ k.auth = "True" /\ k.request \in BadPortRequests)
      => k.origin = "none" /\ k.origin_target = << >> /\ k.sent200 = 0 /\ k.client_closes >= 1

\* C12: an authorized connection whose first read is empty, whose first line
\* has fewer than two tokens, or whose request is neither CONNECT nor an
\* absolute-URI request, opens no origin connection, delivers no byte to an
\* origin, and has its client socket closed.
C12_BadRequestReachesNoOrigin ==
  \A c \in Conns :
    LET k == conns[c] IN
    (Done(c) /\ k.auth = "True" /\ k.request \in BadRequests \cup {<< >>})
      => k.origin = "none" /\ k.origin_target = << >> /\ k.origin_out = << >> /\ k.client_closes >= 1

\* The handler of connection c has ended in a failure: a call on a socket
\* raised, _is_authenticated raised, the target did not parse, or the origin
\* was not reached.
Failed(c) ==
  LET k == conns[c] IN
  /\ Done(c)
  /\ \/ k.io_error
     \/ k.auth \notin {"True", "False"}
     \/ k.auth = "True" /\ k.origin \in {"none", "created"}

Accept ==
  \E c \in Conns : \E request \in CoreRequests :
    _handle_connections(c, << request >>, << OriginPayload >>)

\* C13: a failure of one handler neither stops the accept loop nor touches
\* another connection: while a handler has failed, the listener still accepts
\* the next connection and starts its handler, and the step in which a
\* handler fails leaves the listener, the main thread and every other
\* connection as they are.
C13_FailureStaysInItsConnection ==
  /\ [](((\E d \in Conns : Failed(d)) /\ listener = "listening" /\ ProcessAlive
           /\ (\E c \in Conns : conns[c].pc = "idle"))
        => ENABLED Accept)
  /\ [][\A c \in Conns :
          (~Failed(c) /\ Failed(c)')
            => /\ listener' = listener
               /\ mainPc' = mainPc
               /\ \A d \in Conns \ {c} : conns'[d] = conns[d]]_vars

\* One handler has failed, and the handler of the connection accepted after
\* it has relayed the answer of its origin and ended.
C13_Witness ==
  /\ Failed(1)
  /\ Done(2) /\ ~Failed(2) /\ conns[2].client_out = OriginPayload

\* C14: adding a user whose username exists is rejected and leaves the
\* store as it is: after add_user(U, P1) then add_user(U, P2) the store holds
\* the one entry of U made for P1, U authenticates with P1 and not with P2;
\* and no add-user command changes the row of a user that exists.
C14_DuplicateUserRejected ==
  /\ [](\A username \in DOMAIN db.users : \A P1 \in StorePasswords :
          _authenticate_user(db.users, username, P1)
            => \A P2 \in StorePasswords \ {P1} : \A salt \in Salts :
                 LET after == add_user(db, username, P2, salt) IN
                 /\ after = db
                 /\ _authenticate_user(after.users, username, P1)
                 /\ ~_authenticate_user(after.users, username, P2))
  /\ [][(mainPc = "cli" /\ mainPc' = "cli" /\ conns' = conns)
          => \A username \in DOMAIN db.users :
               username \in DOMAIN db'.users /\ db'.users[username] = db.users[username]]_vars

\* The add-user command has been given a username that exists.
C14_Witness == "IntegrityError" \in dbOps /\ DOMAIN db.users = {Alice}

\* C15: the credential store survives the end of a run, also through the
\* exit command: no step of the server deletes a user or changes its stored
\* credential.
C15_UsersSurvive ==
  [][\A username \in DOMAIN db.users :
       username \in DOMAIN db'.users /\ db'.users[username] = db.users[username]]_vars

\* C16: in every reachable state of the store, the stored credential of each
\* user is 96 lowercase hexadecimal characters: the first 64 are the hex of
\* the 32-byte derived key, the last 32 the hex of the 16-byte salt the key
\* was derived with.
C16_StoredCredentialShape ==
  \A username \in DOMAIN db.users :
    LET stored == db.users[username] IN
    /\ Len(stored) = 96
    /\ \A i \in 1..Len(stored) :
         \E j \in 1..16 : stored[i] = HexDigits[j]
    /\ \E password \in StorePasswords, salt \in Salts :
         /\ Len(salt) = 16
         /\ Len(Pbkdf2(Encode(password), salt)) = 32
         /\ Take(stored, 64) = Hex(Pbkdf2(Encode(password), salt))
         /\ Drop(stored, 64) = Hex(salt)

\* The store holds a user.
C16_Witness == db.file = "table" /\ Alice \in DOMAIN db.users

\* C17: the port the server binds its listener to is in 1..65535, and 8080
\* when the operator enters nothing, whatever the operator answers at the
\* port prompt and however often the bind fails: _start_socket is never
\* entered, and the listener never bound, with a port outside this range.
C17_BoundPortInRange ==
  /\ mainPc = "start_socket" => port[1] \in 1..65535
  /\ listener = "listening" => port[1] \in 1..65535

\* C18: once the exit command has been executed the listening socket is
\* closed, and no further connection is accepted or handed to a handler, also
\* when handlers of connections accepted earlier were running.
C18_ShutdownClosesListener ==
  /\ [](mainPc = "exited" => listener # "listening")
  /\ [][mainPc = "exited"
          => \A c \in Conns : conns[c].pc = "idle" => conns'[c].pc = "idle"]_vars

\* The exit command was given while a handler was running.
C18_Witness ==
  /\ mainPc = "exited" /\ listener = "closed" /\ "remove" \in dbOps
  /\ conns[1].pc = "killed" /\ conns[2].pc = "idle"

\* The position of a handler thread in the order head read, authorization,
\* routing and origin connect, relay, close.
Stage(pc) ==
  CASE pc = "idle" -> 0
    [] pc = "recv_head" -> 1
    [] pc = "auth" -> 2
    [] pc \in {"send_407", "http_connect", "https_connect"} -> 3
    [] pc \in {"http_sendall", "http_recv", "http_send", "https_200",
               "tunnel_select", "tunnel_recv", "tunnel_sendall"} -> 4
    [] OTHER -> 5

\* C19: within a connection the steps run in the order head read,
\* authorization, routing, origin connect, relay, close; with authentication
\* enabled no origin socket is made and no byte is written to an origin
\* before the authorization of the connection has returned allow, and a
\* connection answered with 407 reaches neither the forwarder nor the tunnel.
C19_AuthorizationComesFirst ==
  /\ [](\A c \in Conns :
          LET k == conns[c] IN
          /\ (authentication /\ (k.origin # "none" \/ k.origin_target # << >> \/ k.origin_out # << >>
                                  \/ Stage(k.pc) = 4 \/ k.sent200 > 0))
               => k.auth = "True"
          /\ Stage(k.pc) \in {3, 4} => k.auth \in {"True", "False"}
          /\ (k.sent407 > 0 \/ k.pc = "send_407")
               => /\ k.auth = "False"
                  /\ k.origin = "none" /\ k.origin_target = << >> /\ k.origin_out = << >>
                  /\ k.sent200 = 0 /\ k.client_out = << >>)
  /\ [][\A c \in Conns : Stage(conns'[c].pc) >= Stage(conns[c].pc)]_vars

\* With authentication enabled, a request has been authorized and its head
\* written to the origin.
C19_Witness ==
  /\ authentication
  /\ conns[1].auth = "True" /\ conns[1].origin = "connected" /\ conns[1].origin_out # << >>

\* C20: in CONNECT mode the 200 response is written to the client at most
\* once, only after the connection to the origin has succeeded, and before
\* any byte of the origin is relayed to the client; when the connection to
\* the origin fails (the name does not resolve, or the connect fails) the
\* client receives nothing before its socket is closed; and no connection
\* receives both a 407 and a 200.
C20_EstablishedOnceAfterConnect ==
  \A c \in Conns :
    LET k == conns[c]
        connect_mode == k.auth = "True" /\ StartsWith(k.request_header, Connect)
    IN
    /\ k.sent200 <= 1
    /\ k.sent200 = 1 => connect_mode /\ k.origin \in {"connected", "closed"}
    /\ (connect_mode /\ k.client_out # << >>) => k.sent200 = 1
    /\ (connect_mode /\ k.origin = "created")
         => k.sent200 = 0 /\ k.sent407 = 0 /\ k.client_out = << >>
    /\ ~(k.sent407 > 0 /\ k.sent200 > 0)

\* A tunnel has relayed the bytes of its origin after the 200 response.
C20_Witness ==
  /\ StartsWith(conns[1].request_header, Connect)
  /\ conns[1].sent200 = 1 /\ conns[1].client_out = OriginPayload


\* C21: the Proxy-Authorization header is found whatever the case of its name,
\* and the text "Proxy-Authorization" elsewhere in the head changes nothing:
\* with authentication enabled, a request that carries the valid credentials
\* of a stored user under "proxy-authorization" or "PROXY-AUTHORIZATION", or
\* beside that text in the request target or in another header's value, is
\* authorized as the same credentials under "Proxy-Authorization" are: Alice
\* was added with the password of the request.
C21_HeaderNameCaseInsensitive ==
  \A c \in Conns :
    LET k == conns[c]
    IN  (/\ authentication
         /\ k.auth # "none"
         /\ k.request \in HeaderNameRequests
         /\ \E salt \in Salts :
              db = add_user([file |-> "table", users |-> << >>], Alice, Secret, salt))
          => k.auth = "True"


\* C22: with authentication enabled, a connection whose credential lookup
\* failed with a database error is treated as unauthorized: once its handler
\* has returned, the 407 challenge was sent to the client, no origin socket
\* was made, and the client socket was closed.
C22_DatabaseErrorIsUnauthorized ==
  \A c \in Conns :
    (authentication /\ Done(c) /\ conns[c].auth = "sqlite3.OperationalError")
      => conns[c].sent407 = 1 /\ conns[c].origin = "none" /\ conns[c].client_closes >= 1


\* C23: in every state of a CONNECT tunnel, what was written to the origin is
\* a prefix of what was read from the client after the first read (the bytes
\* the client sent after it, less those still waiting in the socket), and
\* what was written to the client after the 200 response is a prefix of what
\* was read from the origin: no byte is reordered, duplicated, altered or
\* moved to the other direction.
C23_TunnelKeepsOrder ==
  \A c \in Conns :
    LET k == conns[c]
        after == Drop(k.client_sent, Len(k.request))
        from_client == Take(after, Len(after) - Len(k.client_in))
        from_origin == Take(k.origin_sent, Len(k.origin_sent) - Len(k.origin_in))
    IN  Tunnelled(c)
          => /\ Len(k.origin_out) <= Len(from_client)
             /\ k.origin_out = Take(from_client, Len(k.origin_out))
             /\ Len(k.client_out) <= Len(from_origin)
             /\ k.client_out = Take(from_origin, Len(k.client_out))

\* Both directions of a tunnel have relayed their bytes.
C23_Witness ==
  /\ Tunnelled(1)
  /\ conns[1].origin_out = ClientPayload
  /\ conns[1].client_out = OriginPayload


\* C24: in HTTP forwarding mode the handler reads from the client socket once:
\* while _handle_http runs, every byte the client has sent after the first
\* read still waits in the socket, and what is written to the origin, then
\* and once the handler has returned, is nothing or the head of the first
\* read, so that no later byte of the client reaches the origin.
C24_ForwarderReadsClientOnce ==
  \A c \in Conns :
    LET k == conns[c]
        in_http == k.pc \in {"http_connect", "http_sendall", "http_recv", "http_send"}
        was_http == /\ Done(c) /\ k.auth = "True" /\ k.sent200 = 0
                    /\ ~StartsWith(k.request_header, Connect)
    IN  /\ in_http => k.client_sent = k.request \o k.client_in
        /\ (in_http \/ was_http) => k.origin_out \in {<< >>, Encode(k.request_header)}

\* The head was forwarded, and the bytes the client sent after it wait unread.
C24_Witness ==
  /\ conns[1].pc = "http_recv"
  /\ conns[1].origin_out = conns[1].request
  /\ conns[1].client_in = ClientPayload
  /\ conns[1].client_sent = conns[1].request \o ClientPayload


====
